---- MODULE Spec2Model ----
(***************************************************************************)
(* The SLADE console (src/src/Console.cpp): the command registry, the      *)
(* command history, the transcript and the execute() dispatcher.           *)
(*                                                                         *)
(* A string is a sequence of one-character strings, so that tokenizing,    *)
(* formatting and ordinal comparison are computed character by character.  *)
(***************************************************************************)
EXTENDS Integers, Sequences, FiniteSets, TLC

(***************************************************************************)
(* Bounds of the model.                                                    *)
(***************************************************************************)
MaxCmds == 2      \* registrations (addCommand calls)
MaxHist == 2      \* non-empty lines executed
MaxLog  == 1      \* transcript length up to which the host logs directly
FracDigits == 5   \* decimals the model keeps of a floating-point value

(***************************************************************************)
(* Characters and strings.                                                 *)
(***************************************************************************)
NL == "\n"
TAB == "\t"
DQ == "\""

\* The printable ASCII characters, in code order starting at code 32 (the
\* grave accent, code 96, is not used by any input and only holds its place).
Printable ==
  <<" ","!","\"","#","$","%","&","'","(",")","*","+",",","-",".","/","0",
    "1","2","3","4","5","6","7","8","9",":",";","<","=",">","?","@","A","B",
    "C","D","E","F","G","H","I","J","K","L","M","N","O","P","Q","R","S","T",
    "U","V","W","X","Y","Z","[","\\","]","^","_","(grave)","a","b","c","d","e",
    "f","g","h","i","j","k","l","m","n","o","p","q","r","s","t","u","v","w",
    "x","y","z","{","|","}","~">>

\* The character codes.
Code ==
  [c \in {Printable[i] : i \in 1..Len(Printable)} |->
     31 + (CHOOSE i \in 1..Len(Printable) : Printable[i] = c)]
  @@ (TAB :> 9) @@ (NL :> 10)

\* The character code of c (the byte std::string comparison looks at).
Ord(c) == Code[c]

\* a < b as strings: ordinal, byte-wise, a proper prefix is smaller.
RECURSIVE StrLess(_, _)
StrLess(a, b) ==
  IF b = <<>> THEN FALSE
  ELSE IF a = <<>> THEN TRUE
  ELSE IF Ord(Head(a)) < Ord(Head(b)) THEN TRUE
  ELSE IF Ord(Head(a)) > Ord(Head(b)) THEN FALSE
  ELSE StrLess(Tail(a), Tail(b))

Digits == <<"0","1","2","3","4","5","6","7","8","9">>

\* printf("%d") of a natural number.
RECURSIVE FmtNat(_)
FmtNat(n) ==
  IF n < 10 THEN <<Digits[n + 1]>>
  ELSE FmtNat(n \div 10) \o <<Digits[(n % 10) + 1]>>

\* printf("%d") of an integer.
FmtInt(n) == IF n < 0 THEN <<"-">> \o FmtNat(0 - n) ELSE FmtNat(n)

\* "\"%s\"" of a string.
Quoted(s) == <<DQ>> \o s \o <<DQ>>

(***************************************************************************)
(* The tokenizer collaborator: whitespace-delimited tokens, a double quote *)
(* opens a token that runs to the closing quote; getToken returns the      *)
(* empty string once the input is exhausted.                               *)
(***************************************************************************)
IsWhitespace(c) == c \in {" ", TAB, NL}

RECURSIVE SkipWhitespace(_, _)
SkipWhitespace(s, i) ==
  IF i > Len(s) THEN i
  ELSE IF IsWhitespace(s[i]) THEN SkipWhitespace(s, i + 1)
  ELSE i

RECURSIVE WordEnd(_, _)
WordEnd(s, i) ==
  IF i > Len(s) THEN i
  ELSE IF IsWhitespace(s[i]) \/ s[i] = DQ THEN i
  ELSE WordEnd(s, i + 1)

RECURSIVE QuoteEnd(_, _)
QuoteEnd(s, i) ==
  IF i > Len(s) THEN i
  ELSE IF s[i] = DQ THEN i
  ELSE QuoteEnd(s, i + 1)

\* All the tokens of s from position i on.
RECURSIVE ReadTokens(_, _)
ReadTokens(s, i) ==
  LET j == SkipWhitespace(s, i) IN
  IF j > Len(s) THEN <<>>
  ELSE IF s[j] = DQ
    THEN LET k == QuoteEnd(s, j + 1) IN
         <<SubSeq(s, j + 1, k - 1)>> \o ReadTokens(s, k + 1)
    ELSE LET k == WordEnd(s, j) IN
         <<SubSeq(s, j, k - 1)>> \o ReadTokens(s, k)

openString(s) == ReadTokens(s, 1)

\* The n-th call of getToken on a tokenizer opened on tokens tz.
getToken(tz, n) == IF n <= Len(tz) THEN tz[n] ELSE <<>>

\* The argument loop passing over empty tokens instead of stopping.
RECURSIVE CollectArgs_SkipEmpty(_, _)
CollectArgs_SkipEmpty(tz, n) ==
  LET arg == getToken(tz, n) IN
  IF n > Len(tz) THEN <<>>
  ELSE IF arg = <<>> THEN CollectArgs_SkipEmpty(tz, n + 1)
  ELSE <<arg>> \o CollectArgs_SkipEmpty(tz, n + 1)

\* The argument loop of execute: tokens from the n-th on, up to the first
\* empty one.
RECURSIVE CollectArgs(_, _)
CollectArgs(tz, n) ==
  LET arg == getToken(tz, n) IN
  IF arg = <<>> THEN <<>> ELSE <<arg>> \o CollectArgs(tz, n + 1)

(***************************************************************************)
(* String literals of the program.                                         *)
(***************************************************************************)
S_echo == <<"e","c","h","o">>
S_cmdlist == <<"c","m","d","l","i","s","t">>
S_cvarlist == <<"c","v","a","r","l","i","s","t">>
S_true == <<"t","r","u","e">>
S_false == <<"f","a","l","s","e">>
S_zero == <<"0">>
S_MissingArgs ==
  <<"M","i","s","s","i","n","g"," ","c","o","m","m","a","n","d"," ",
    "a","r","g","u","m","e","n","t","s">>
S_UnknownCommand ==
  <<"U","n","k","n","o","w","n"," ","c","o","m","m","a","n","d",":"," ">>
S_ValidCommands ==
  <<" ","V","a","l","i","d"," ","C","o","m","m","a","n","d","s",":">>
S_CVars == <<" ","C","V","a","r","s",":">>
S_eq == <<" ","="," ">>

(***************************************************************************)
(* Inputs.                                                                 *)
(***************************************************************************)
\* Names and argument tokens the input lines are built from.
W_v == <<"v">>
W_n == <<"n">>
W_bogus == <<"b","o","g","u","s">>
W_hello == <<"h","e","l","l","o">>
W_False == <<"F","a","l","s","e">>
W_1 == <<"1">>
W_00 == <<"0","0">>
W_12abc == <<"1","2","a","b","c">>
W_m5 == <<"-","5">>
W_f == <<"f">>
W_s == <<"s">>
W_abc == <<"a","b","c">>
W_minus == <<"-">>
W_42 == <<"4","2">>
W_007 == <<"0","0","7">>
W_1p5 == <<"1",".","5">>
W_0p12346 == <<"0",".","1","2","3","4","6">>
W_m0p00004 == <<"-","0",".","0","0","0","0","4">>

\* Tokens joined by single blanks.
RECURSIVE Join(_)
Join(ws) ==
  IF ws = <<>> THEN <<>>
  ELSE IF Len(ws) = 1 THEN ws[1]
  ELSE ws[1] \o <<" ">> \o Join(Tail(ws))

\* The command objects the program (or a test) constructs: the three
\* commands of Console.cpp, and a command named like the variable "v"
\* whose handler logs nothing.
CmdEcho == [name |-> S_echo, commandFunc |-> "c_echo", min_args |-> 1]
CmdCmdlist == [name |-> S_cmdlist, commandFunc |-> "c_cmdlist", min_args |-> 0]
CmdCvarlist ==
  [name |-> S_cvarlist, commandFunc |-> "c_cvarlist", min_args |-> 0]
CmdSpy == [name |-> W_v, commandFunc |-> "c_spy", min_args |-> 1]

\* A second command object registered under the name echo.
CmdEcho2 == [name |-> S_echo, commandFunc |-> "c_spy", min_args |-> 0]

CommandPool == {CmdEcho, CmdCmdlist, CmdSpy}

\* The lines given to execute: the three outcomes of the dispatcher.
Lines ==
  { <<>>,
    Join(<<S_echo>>), Join(<<S_echo, W_hello>>), Join(<<S_echo, W_hello, W_1>>),
    Join(<<S_cmdlist>>),
    Join(<<W_bogus>>),
    Join(<<W_v>>), Join(<<W_v, W_1>>) }

\* The lines given to execute that read and assign variables.
CVarLines ==
  { <<>>,
    Join(<<W_v>>), Join(<<W_v, W_1>>), Join(<<W_v, S_zero>>),
    Join(<<W_v, S_false>>), Join(<<W_v, W_False>>), Join(<<W_v, W_00>>),
    Join(<<W_v, W_1, S_zero>>),
    Join(<<W_n>>), Join(<<W_n, W_12abc>>), Join(<<W_n, W_m5>>),
    Join(<<S_cvarlist>>) }

\* Lines of blanks only, and lines with an empty quoted token.
W_blank == <<" ">>
W_blanks == <<" ", TAB, " ">>
W_quotes == <<DQ, DQ>>
EdgeLines ==
  { <<>>, W_blank, W_blanks,
    Join(<<S_echo, W_hello, W_quotes, W_1>>),
    Join(<<S_echo, W_quotes, W_hello>>),
    Join(<<S_echo, W_hello, W_1>>),
    Join(<<W_v, W_quotes, S_zero>>),
    Join(<<W_bogus>>) }

\* The commands registered while variables are read and assigned.
CVarCommandPool == {CmdSpy, CmdCvarlist}

\* The commands registered, and the lines executed, while the registry is
\* read by index.
RegistryCommandPool == {CmdEcho, CmdEcho2, CmdCmdlist, CmdCvarlist, CmdSpy}
RegistryLines == { Join(<<S_cmdlist>>), Join(<<S_echo, W_hello>>) }

\* The messages the host logs directly.
Messages == { <<"h","i">>, <<"h","i",NL>> }

\* The lines given to execute that assign text to the Integer, Float and
\* String variables.
TypedLines ==
  { Join(<<W_n>>), Join(<<W_n, W_abc>>), Join(<<W_n, W_12abc>>),
    Join(<<W_n, W_minus>>), Join(<<W_n, W_m5>>), Join(<<W_n, W_42>>),
    Join(<<W_n, W_007>>),
    Join(<<W_f, W_1p5>>), Join(<<W_f, W_0p12346>>), Join(<<W_f, W_m0p00004>>),
    Join(<<W_s, W_hello>>), W_s \o <<" ", DQ, "a", " ", "b", DQ>>,
    Join(<<W_v, W_1>>) }

\* The messages logged, the commands registered and the lines executed
\* while the transcript is watched.
LogMessages == { <<>>, <<NL>>, <<"h","i">>, <<"h","i",NL>> }
LogCommandPool == {CmdEcho, CmdCmdlist}
LogLines ==
  { <<>>, Join(<<S_echo, W_hello>>), Join(<<S_cmdlist>>), Join(<<W_bogus>>),
    Join(<<W_v, W_1>>) }

\* The indexes command() is asked for (a size_t).
Indexes == 0 .. MaxCmds

(***************************************************************************)
(* State.                                                                  *)
(***************************************************************************)
VARIABLES
  commands,    \* Console::commands, the registry
  cmd_log,     \* Console::cmd_log, the history, most recent first
  log,         \* Console::log, the transcript
  cvars,       \* the variable store: name -> [type, value]
  announced,   \* how often each event has been announced
  invoked,     \* the handler calls made so far: <<commandFunc, args>>
  executed,    \* the non-empty lines given to execute, in call order
  lastCall     \* the call that produced this state and what it returned

vars ==
  <<commands, cmd_log, log, cvars, announced, invoked, executed, lastCall>>

NoRet == [kind |-> "none", cmd |-> <<>>]

Call(op, text, index, ret) ==
  [op |-> op, text |-> text, index |-> index, ret |-> ret]

\* Nothing runs after a crash.
Alive == lastCall.ret.kind # "crash"

Init ==
  /\ commands = <<>>
  /\ cmd_log = <<>>
  /\ log = <<>>
  /\ cvars = (W_v :> [type |-> "CVAR_BOOLEAN", value |-> FALSE])
          @@ (W_n :> [type |-> "CVAR_INTEGER", value |-> 7])
          @@ (W_f :> [type |-> "CVAR_FLOAT", value |-> 0])
          @@ (W_s :> [type |-> "CVAR_STRING", value |-> <<>>])
  /\ announced = [console_execute |-> 0, console_logmessage |-> 0]
  /\ invoked = <<>>
  /\ executed = <<>>
  /\ lastCall = Call("init", <<>>, 0, NoRet)

(***************************************************************************)
(* Console::addCommand                                                     *)
(***************************************************************************)
\* operator< of ConsoleCommand: by name.
CommandLess(c, d) == StrLess(c.name, d.name)

\* The places where x can end up in the sorted sequence s: after every
\* smaller element, before every larger one, anywhere among the equal ones
\* (std::sort is not stable).
SortInsert(s, x) ==
  LET lo == Cardinality({i \in 1..Len(s) : CommandLess(s[i], x)})
      hi == Cardinality({i \in 1..Len(s) : ~CommandLess(x, s[i])})
  IN  { SubSeq(s, 1, k) \o <<x>> \o SubSeq(s, k + 1, Len(s)) : k \in lo..hi }

\* The outcomes of sort(begin, end) on s.
RECURSIVE Sort(_)
Sort(s) ==
  IF s = <<>> THEN { <<>> }
  ELSE UNION { SortInsert(t, s[Len(s)]) : t \in Sort(SubSeq(s, 1, Len(s) - 1)) }

\* addCommand without its sort.
addCommand_NoSort(c) == { Append(commands, c) }

\* What addCommand(c) leaves in the registry.
addCommand(c) == Sort(Append(commands, c))

AddCommand(c) ==
  /\ Alive
  /\ Len(commands) < MaxCmds
  /\ commands' \in addCommand(c)
  /\ lastCall' = Call("addCommand", c.name, 0, NoRet)
  /\ UNCHANGED <<cmd_log, log, cvars, announced, invoked, executed>>

(***************************************************************************)
(* Console::logMessage and the transcript readers                          *)
(***************************************************************************)
\* What message.Last() can read.  An empty string has no last character:
\* the read is outside the string and gives a newline or anything else
\* (or the program stops, see LogMessage).
Last(message) ==
  IF Len(message) > 0 THEN { message[Len(message)] } ELSE { NL, "?" }

\* The transcript with entry pushed at the front.
LogPush_Front(lg, entry) == <<entry>> \o lg

\* log.push_back(entry)
LogPush(lg, entry) == Append(lg, entry)

\* The entries logMessage(message) can push: the message, with a newline
\* added when the last character read is not one.
logMessage(message) ==
  { IF ch # NL THEN message \o <<NL>> ELSE message : ch \in Last(message) }

\* The transcripts logging the messages msgs, in order, can give.
RECURSIVE LogAll(_, _)
LogAll(lg, msgs) ==
  IF msgs = <<>> THEN { lg }
  ELSE UNION { LogAll(LogPush(lg, e), Tail(msgs)) : e \in logMessage(Head(msgs)) }

\* The announcement counts after one announcement, however many were due.
Announce_Once(counts, event, n) == [counts EXCEPT ![event] = @ + 1]

\* The announcement counts after n more announcements of an event.
Announce(counts, event, n) == [counts EXCEPT ![event] = @ + n]

lastLogLine == IF Len(log) > 0 THEN log[Len(log)] ELSE <<>>

RECURSIVE Concat(_)
Concat(ss) == IF ss = <<>> THEN <<>> ELSE Head(ss) \o Concat(Tail(ss))

dumpLog == Concat(log)

LogMessage(message) ==
  /\ Alive
  /\ Len(log) < MaxLog
  /\ \/ /\ log' \in LogAll(log, <<message>>)
        /\ announced' = Announce(announced, "console_logmessage", 1)
        /\ lastCall' = Call("logMessage", message, 0, NoRet)
     \/ /\ Len(message) = 0
        /\ lastCall' =
             Call("logMessage", message, 0, [kind |-> "crash", cmd |-> <<>>])
        /\ UNCHANGED <<log, announced>>
  /\ UNCHANGED <<commands, cmd_log, cvars, invoked, executed>>

(***************************************************************************)
(* The history readers                                                     *)
(***************************************************************************)
lastCommand == IF Len(cmd_log) > 0 THEN cmd_log[Len(cmd_log)] ELSE <<>>

prevCommand(index) ==
  IF index < 0 \/ index >= Len(cmd_log) THEN <<>> ELSE cmd_log[index + 1]

(***************************************************************************)
(* Console::command                                                        *)
(***************************************************************************)
numCommands == Len(commands)

Returned(c) == [kind |-> "command", cmd |-> <<c>>]

\* What command(index) can return.  On an empty registry the fallback
\* commands[0] is a reference to no element: the caller reads garbage or
\* the program crashes.
command(index) ==
  IF index < Len(commands) THEN { Returned(commands[index + 1]) }
  ELSE IF Len(commands) > 0 THEN { Returned(commands[1]) }
  ELSE { [kind |-> "garbage", cmd |-> <<>>], [kind |-> "crash", cmd |-> <<>>] }

Command(index) ==
  /\ Alive
  /\ \E r \in command(index) : lastCall' = Call("command", <<>>, index, r)
  /\ UNCHANGED <<commands, cmd_log, log, cvars, announced, invoked, executed>>

(***************************************************************************)
(* The variable store, as execute uses it                                  *)
(***************************************************************************)
get_cvar(name) == IF name \in DOMAIN cvars THEN <<cvars[name]>> ELSE <<>>

IsDigit(c) == c \in {Digits[i] : i \in 1..10}

RECURSIVE DigitsValue(_, _, _)
DigitsValue(s, i, acc) ==
  IF i > Len(s) THEN acc
  ELSE IF ~IsDigit(s[i]) THEN acc
  ELSE DigitsValue(s, i + 1, acc * 10 + (Ord(s[i]) - 48))

\* atoi that gives 0 as soon as anything follows the digits.
atoi_Strict(s) ==
  LET i == SkipWhitespace(s, 1)
      j == IF i <= Len(s) /\ s[i] \in {"-", "+"} THEN i + 1 ELSE i
  IN  IF \E k \in j..Len(s) : ~IsDigit(s[k]) THEN 0
      ELSE IF i <= Len(s) /\ s[i] = "-" THEN 0 - DigitsValue(s, j, 0)
      ELSE DigitsValue(s, j, 0)

\* atoi: blanks, an optional sign, then digits up to the first other
\* character; 0 when there is no digit.
atoi(s) ==
  LET i == SkipWhitespace(s, 1) IN
  IF i > Len(s) THEN 0
  ELSE IF s[i] = "-" THEN 0 - DigitsValue(s, i + 1, 0)
  ELSE IF s[i] = "+" THEN DigitsValue(s, i + 1, 0)
  ELSE DigitsValue(s, i, 0)

\* A floating-point value is held as a whole number of units of
\* 10^-FracDigits; FloatShift of them make one unit of the fourth decimal.
FloatShift == 10 ^ (FracDigits - 4)

RECURSIVE DigitsEnd(_, _)
DigitsEnd(s, i) ==
  IF i > Len(s) THEN i
  ELSE IF ~IsDigit(s[i]) THEN i
  ELSE DigitsEnd(s, i + 1)

\* The value of the decimals of s from position i on, the j-th decimal first.
RECURSIVE FracValue(_, _, _)
FracValue(s, i, j) ==
  IF i > Len(s) \/ j > FracDigits THEN 0
  ELSE IF ~IsDigit(s[i]) THEN 0
  ELSE (Ord(s[i]) - 48) * (10 ^ (FracDigits - j)) + FracValue(s, i + 1, j + 1)

\* atof of an unsigned decimal starting at position i.
UnsignedAtof(s, i) ==
  LET e == DigitsEnd(s, i)
      whole == DigitsValue(s, i, 0) * (10 ^ FracDigits)
  IN  IF e <= Len(s) /\ s[e] = "." THEN whole + FracValue(s, e + 1, 1)
      ELSE whole

\* (float)atof: blanks, an optional sign, digits, a point and decimals, up
\* to the first other character; 0 when there is no number.
atof(s) ==
  LET i == SkipWhitespace(s, 1) IN
  IF i > Len(s) THEN 0
  ELSE IF s[i] = "-" THEN 0 - UnsignedAtof(s, i + 1)
  ELSE IF s[i] = "+" THEN UnsignedAtof(s, i + 1)
  ELSE UnsignedAtof(s, i)

\* n as exactly four digits.
Pad4(n) ==
  <<Digits[((n \div 1000) % 10) + 1], Digits[((n \div 100) % 10) + 1],
    Digits[((n \div 10) % 10) + 1], Digits[(n % 10) + 1]>>

\* printf("%1.4f"): the value rounded to the fourth decimal, to the even
\* neighbour on a tie (the binary value of a float decides a tie of the
\* decimal text; no input has a last decimal of 5).
FmtFixed4(u) ==
  LET a == IF u < 0 THEN 0 - u ELSE u
      q == a \div FloatShift
      rem == a % FloatShift
      r == IF 2 * rem > FloatShift \/ (2 * rem = FloatShift /\ q % 2 = 1)
             THEN q + 1 ELSE q
  IN  (IF u < 0 THEN <<"-">> ELSE <<>>)
      \o FmtNat(r \div 10000) \o <<".">> \o Pad4(r % 10000)

\* SetValue taking only "0" for false.
SetValue_OnlyZero(cvar, arg) ==
  IF cvar.type = "CVAR_BOOLEAN" THEN ~(arg = S_zero)
  ELSE IF cvar.type = "CVAR_INTEGER" THEN atoi(arg)
  ELSE IF cvar.type = "CVAR_FLOAT" THEN atof(arg)
  ELSE arg

\* The value execute assigns to a variable of the given type from arg.
SetValue(cvar, arg) ==
  IF cvar.type = "CVAR_BOOLEAN" THEN ~(arg = S_zero \/ arg = S_false)
  ELSE IF cvar.type = "CVAR_INTEGER" THEN atoi(arg)
  ELSE IF cvar.type = "CVAR_FLOAT" THEN atof(arg)
  ELSE arg

\* PrintValue printing an integer without its sign.
PrintValue_NoSign(cvar) ==
  IF cvar.type = "CVAR_BOOLEAN"
    THEN (IF cvar.value THEN S_true ELSE S_false)
  ELSE IF cvar.type = "CVAR_INTEGER"
    THEN FmtNat(IF cvar.value < 0 THEN 0 - cvar.value ELSE cvar.value)
  ELSE IF cvar.type = "CVAR_FLOAT" THEN FmtFixed4(cvar.value)
  ELSE cvar.value

\* The text execute prints for a variable.
PrintValue(cvar) ==
  IF cvar.type = "CVAR_BOOLEAN"
    THEN (IF cvar.value THEN S_true ELSE S_false)
  ELSE IF cvar.type = "CVAR_INTEGER" THEN FmtInt(cvar.value)
  ELSE IF cvar.type = "CVAR_FLOAT" THEN FmtFixed4(cvar.value)
  ELSE cvar.value

\* The names get_cvar_list gives, sorted.
RECURSIVE SortedNames(_)
SortedNames(S) ==
  IF S = {} THEN <<>>
  ELSE LET m == CHOOSE x \in S : \A y \in S \ {x} : StrLess(x, y)
       IN  <<m>> \o SortedNames(S \ {m})

(***************************************************************************)
(* The command handlers and ConsoleCommand::execute                        *)
(***************************************************************************)
\* The handlers, with echo logging its last argument.
CommandFunc_EchoLast(commandFunc, args) ==
  IF commandFunc = "c_echo" THEN <<args[Len(args)]>>
  ELSE IF commandFunc = "c_cmdlist" THEN
    <<FmtInt(numCommands) \o S_ValidCommands>>
    \o [a \in 1..numCommands |->
          Quoted((CHOOSE r \in command(a - 1) : TRUE).cmd[1].name)]
  ELSE IF commandFunc = "c_cvarlist" THEN
    LET list == SortedNames(DOMAIN cvars) IN
    <<FmtInt(Len(list)) \o S_CVars>> \o list
  ELSE <<>>

\* The messages the handler commandFunc logs when called with args.
CommandFunc(commandFunc, args) ==
  IF commandFunc = "c_echo" THEN <<args[1]>>
  ELSE IF commandFunc = "c_cmdlist" THEN
    <<FmtInt(numCommands) \o S_ValidCommands>>
    \o [a \in 1..numCommands |->
          Quoted((CHOOSE r \in command(a - 1) : TRUE).cmd[1].name)]
  ELSE IF commandFunc = "c_cvarlist" THEN
    LET list == SortedNames(DOMAIN cvars) IN
    <<FmtInt(Len(list)) \o S_CVars>> \o list
  ELSE <<>>

\* ConsoleCommand::execute asking for more than min_args arguments.
ConsoleCommandExecute_Strict(c, args) ==
  IF Len(args) > c.min_args
    THEN [msgs |-> CommandFunc(c.commandFunc, args),
          calls |-> <<[commandFunc |-> c.commandFunc, args |-> args]>>,
          cvars |-> cvars]
    ELSE [msgs |-> <<S_MissingArgs>>, calls |-> <<>>, cvars |-> cvars]

\* ConsoleCommand::execute: the messages logged and the handler calls made.
ConsoleCommandExecute(c, args) ==
  IF Len(args) >= c.min_args
    THEN [msgs |-> CommandFunc(c.commandFunc, args),
          calls |-> <<[commandFunc |-> c.commandFunc, args |-> args]>>,
          cvars |-> cvars]
    ELSE [msgs |-> <<S_MissingArgs>>, calls |-> <<>>, cvars |-> cvars]

(***************************************************************************)
(* Console::execute                                                        *)
(***************************************************************************)
\* The index of the first registered command called name, 0 if none.
FindCommand(name) ==
  LET hits == {a \in 1..Len(commands) : commands[a].name = name} IN
  IF hits = {} THEN 0 ELSE CHOOSE a \in hits : \A b \in hits : a <= b

\* The variable branch of execute assigning the last argument.
ExecuteCVar_LastArg(cmd_name, args) ==
  LET cvar == cvars[cmd_name]
      set == IF Len(args) > 0
               THEN [cvar EXCEPT !.value = SetValue(cvar, args[Len(args)])]
               ELSE cvar
  IN  [msgs |-> <<Quoted(cmd_name) \o S_eq \o Quoted(PrintValue(set))>>,
       calls |-> <<>>,
       cvars |-> [cvars EXCEPT ![cmd_name] = set]]

\* The variable branch of execute.
ExecuteCVar(cmd_name, args) ==
  LET cvar == cvars[cmd_name]
      set == IF Len(args) > 0
               THEN [cvar EXCEPT !.value = SetValue(cvar, args[1])]
               ELSE cvar
  IN  [msgs |-> <<Quoted(cmd_name) \o S_eq \o Quoted(PrintValue(set))>>,
       calls |-> <<>>,
       cvars |-> [cvars EXCEPT ![cmd_name] = set]]

\* The last branch of execute: nothing is called cmd_name.
UnknownCommand_Bare(cmd_name) ==
  [msgs |-> <<S_UnknownCommand \o cmd_name>>, calls |-> <<>>, cvars |-> cvars]

UnknownCommand(cmd_name) ==
  [msgs |-> <<S_UnknownCommand \o Quoted(cmd_name)>>,
   calls |-> <<>>, cvars |-> cvars]

\* execute looking for a variable before it looks for a command.
Dispatch_CVarFirst(line) ==
  LET tz == openString(line)
      cmd_name == getToken(tz, 1)
      args == CollectArgs(tz, 2)
      a == FindCommand(cmd_name)
  IN  IF get_cvar(cmd_name) # <<>> THEN ExecuteCVar(cmd_name, args)
      ELSE IF a > 0 THEN ConsoleCommandExecute(commands[a], args)
      ELSE UnknownCommand(cmd_name)

\* What execute does with a non-empty line once it is in the history.
Dispatch(line) ==
  LET tz == openString(line)
      cmd_name == getToken(tz, 1)
      args == CollectArgs(tz, 2)
      a == FindCommand(cmd_name)
  IN  IF a > 0 THEN ConsoleCommandExecute(commands[a], args)
      ELSE IF get_cvar(cmd_name) # <<>> THEN ExecuteCVar(cmd_name, args)
      ELSE UnknownCommand(cmd_name)

\* execute never returning early.
IsEmptyCommand_Never(line) == FALSE

\* The early return of execute.
IsEmptyCommand(line) == Len(line) = 0

\* The history with line added at the back.
HistoryInsert_Back(line) == Append(cmd_log, line)

\* The history after execute has added line to it.
HistoryInsert(line) == <<line>> \o cmd_log

Execute(line) ==
  /\ Alive
  /\ lastCall' = Call("execute", line, 0, NoRet)
  /\ IF IsEmptyCommand(line)
       THEN UNCHANGED <<commands, cmd_log, log, cvars, announced, invoked,
                        executed>>
       ELSE /\ Len(cmd_log) < MaxHist
            /\ cmd_log' = HistoryInsert(line)
            /\ executed' = Append(executed, line)
            /\ \E d \in {Dispatch(line)} :
               /\ log' \in LogAll(log, d.msgs)
               /\ announced' =
                    Announce(Announce(announced, "console_execute", 1),
                             "console_logmessage", Len(d.msgs))
               /\ invoked' = invoked \o d.calls
               /\ cvars' = d.cvars
            /\ UNCHANGED commands

\* execute in two steps, to observe the console between them.  No call is
\* in progress:
Idle == lastCall.op # "executing"

\* The first step leaving the history and the announcement for later.
ExecuteBegin_Late(line) ==
  /\ Alive
  /\ Idle
  /\ IF IsEmptyCommand(line)
       THEN lastCall' = Call("execute", line, 0, NoRet)
       ELSE /\ Len(cmd_log) < MaxHist
            /\ lastCall' = Call("executing", line, 0, NoRet)
  /\ UNCHANGED <<commands, cmd_log, log, cvars, announced, invoked, executed>>

\* execute up to the tokenizing: the early return on an empty line, else
\* the history insertion and the console_execute announcement.
ExecuteBegin(line) ==
  /\ Alive
  /\ Idle
  /\ IF IsEmptyCommand(line)
       THEN /\ lastCall' = Call("execute", line, 0, NoRet)
            /\ UNCHANGED <<cmd_log, announced, executed>>
       ELSE /\ Len(cmd_log) < MaxHist
            /\ cmd_log' = HistoryInsert(line)
            /\ executed' = Append(executed, line)
            /\ announced' = Announce(announced, "console_execute", 1)
            /\ lastCall' = Call("executing", line, 0, NoRet)
  /\ UNCHANGED <<commands, log, cvars, invoked>>

\* execute from the tokenizing on: the dispatch of the line in progress.
ExecuteDispatch ==
  /\ ~Idle
  /\ \E d \in {Dispatch(lastCall.text)} :
       /\ log' \in LogAll(log, d.msgs)
       /\ announced' = Announce(announced, "console_logmessage", Len(d.msgs))
       /\ invoked' = invoked \o d.calls
       /\ cvars' = d.cvars
  /\ lastCall' = Call("execute", lastCall.text, 0, NoRet)
  /\ UNCHANGED <<commands, cmd_log, executed>>

(***************************************************************************)
(* The console as its callers drive it                                     *)
(***************************************************************************)
Next ==
  \/ \E c \in CommandPool : AddCommand(c)
  \/ \E line \in Lines : Execute(line)
  \/ \E message \in Messages : LogMessage(message)

Spec == Init /\ [][Next]_vars

\* The same console while commands are registered and the registry is read
\* by index.
NextRegistry ==
  \/ \E c \in RegistryCommandPool : AddCommand(c)
  \/ \E index \in Indexes : Command(index)
  \/ \E line \in RegistryLines : Execute(line)

SpecRegistry == Init /\ [][NextRegistry]_vars

\* The same console, driven with the lines that read and assign variables.
NextCVar ==
  \/ \E c \in CVarCommandPool : AddCommand(c)
  \/ \E line \in CVarLines : Execute(line)

SpecCVar == Init /\ [][NextCVar]_vars

\* The same console, driven with the lines that assign text to the typed
\* variables.
NextTyped == \E line \in TypedLines : Execute(line)

SpecTyped == Init /\ [][NextTyped]_vars

\* The same console while the host logs messages of its own between the
\* lines it executes.
NextLog ==
  \/ \E c \in LogCommandPool : AddCommand(c)
  \/ \E line \in LogLines : Execute(line)
  \/ \E message \in LogMessages : LogMessage(message)

SpecLog == Init /\ [][NextLog]_vars

\* The same console with execute observed between its history insertion
\* and its dispatch.
NextSteps ==
  \/ \E c \in CommandPool : Idle /\ AddCommand(c)
  \/ \E line \in Lines : ExecuteBegin(line)
  \/ ExecuteDispatch

SpecSteps == Init /\ [][NextSteps]_vars

\* The same console, driven with lines of blanks and of empty tokens.
NextEdge ==
  \/ \E c \in LogCommandPool : AddCommand(c)
  \/ \E line \in EdgeLines : Execute(line)

SpecEdge == Init /\ [][NextEdge]_vars

(***************************************************************************)
(* Vocabulary of the properties                                            *)
(***************************************************************************)
\* The step is an execute of a non-empty line.
ExecuteStep == lastCall'.op = "execute" /\ lastCall'.text # <<>>

\* The first token of a line, and the tokens after it.
NameOf(line) == getToken(openString(line), 1)
ArgsOf(line) ==
  IF openString(line) = <<>> THEN <<>> ELSE Tail(openString(line))

IsRegistered(name) == \E a \in 1..Len(commands) : commands[a].name = name
IsDeclared(name) == name \in DOMAIN cvars

\* The transcript entries the step appends.
Appended == SubSeq(log', Len(log) + 1, Len(log'))

StartsWith(s, p) == Len(s) >= Len(p) /\ SubSeq(s, 1, Len(p)) = p

\* An entry "<name>" = ... was appended, an entry Unknown command: ... was.
AppendedValueOf(name) ==
  \E k \in 1..Len(Appended) : StartsWith(Appended[k], Quoted(name) \o S_eq)
AppendedUnknown ==
  \E k \in 1..Len(Appended) : StartsWith(Appended[k], S_UnknownCommand)

(***************************************************************************)
(* C1: precedence of execute(line).  When the first token names a          *)
(* registered command the variable store is untouched and no               *)
(* "<name>" = "<value>" line is logged, whatever the argument count; a     *)
(* variable is read or set only when no command matches; the unknown       *)
(* command line is logged only when neither matches.                       *)
(***************************************************************************)
C1_Precedence ==
  [][ExecuteStep =>
        LET name == NameOf(lastCall'.text) IN
        /\ IsRegistered(name) => (cvars' = cvars /\ ~AppendedValueOf(name))
        /\ (cvars' # cvars \/ AppendedValueOf(name)) =>
             (~IsRegistered(name) /\ IsDeclared(name))
        /\ AppendedUnknown <=> (~IsRegistered(name) /\ ~IsDeclared(name))
     ]_vars

\* "v 1" was executed while a command named v was registered, the handler
\* ran and the variable v kept its value.
C1_Witness ==
  /\ lastCall.op = "execute"
  /\ lastCall.text = Join(<<W_v, W_1>>)
  /\ IsRegistered(W_v)
  /\ cvars[W_v].value = FALSE
  /\ invoked # <<>>
  /\ invoked[Len(invoked)].commandFunc = "c_spy"

(***************************************************************************)
(* C2: after any sequence of addCommand calls the registry, read by index, *)
(* is sorted ascending by name in ordinal order.                           *)
(***************************************************************************)
C2_RegistrySorted ==
  \A i, j \in 1..Len(commands) :
    i < j => ~StrLess(commands[j].name, commands[i].name)

\* The command registered last has a smaller name than one registered
\* before it, and sits in front of it.
C2_Witness ==
  /\ lastCall.op = "addCommand"
  /\ Len(commands) = 2
  /\ commands[1].name = lastCall.text
  /\ commands[2].name # lastCall.text

(***************************************************************************)
(* C3: execute("") leaves the transcript, the history, both notification   *)
(* counts, the registry and every variable unchanged.                      *)
(***************************************************************************)
C3_EmptyLineNoEffect ==
  [][(lastCall'.op = "execute" /\ lastCall'.text = <<>>) =>
        UNCHANGED <<log, cmd_log, announced, commands, cvars, invoked>>
     ]_vars

\* execute("") was called on a console that has a history, a transcript
\* and commands.
C3_Witness ==
  /\ lastCall.op = "execute"
  /\ lastCall.text = <<>>
  /\ cmd_log # <<>>
  /\ log # <<>>
  /\ commands # <<>>
  /\ announced.console_execute = Len(cmd_log)

(***************************************************************************)
(* C4: when execute(line) resolves to a registered command and there are   *)
(* fewer argument tokens than its minimum, the handler is not called, the  *)
(* one line "Missing command arguments" is appended and no variable        *)
(* changes; with at least the minimum, the handler is called exactly once  *)
(* with all the arguments in order.                                        *)
(***************************************************************************)
C4_MinimumArguments ==
  [][(ExecuteStep /\ IsRegistered(NameOf(lastCall'.text))) =>
        LET c == commands[FindCommand(NameOf(lastCall'.text))]
            args == ArgsOf(lastCall'.text)
        IN  IF Len(args) < c.min_args
              THEN /\ invoked' = invoked
                   /\ Appended = <<S_MissingArgs \o <<NL>>>>
                   /\ cvars' = cvars
              ELSE invoked' =
                     Append(invoked,
                            [commandFunc |-> c.commandFunc, args |-> args])
     ]_vars

\* "echo" alone was refused after "echo hello 1" had reached the handler
\* with both arguments.
C4_Witness ==
  /\ lastCall.op = "execute"
  /\ lastCall.text = S_echo
  /\ IsRegistered(S_echo)
  /\ lastLogLine = S_MissingArgs \o <<NL>>
  /\ invoked = <<[commandFunc |-> "c_echo", args |-> <<W_hello, W_1>>]>>

(***************************************************************************)
(* C5: when the first token of a non-empty line names neither a command    *)
(* nor a variable, execute appends the one line                            *)
(* Unknown command: "<commandName>", calls no handler, changes no variable *)
(* and no registry entry, and the console stays ready: the next execute of *)
(* a line that names a command with enough arguments calls its handler.    *)
(***************************************************************************)
C5_UnknownCommand ==
  [][ExecuteStep =>
        LET name == NameOf(lastCall'.text) IN
        /\ (~IsRegistered(name) /\ ~IsDeclared(name)) =>
             /\ Appended = <<S_UnknownCommand \o <<DQ>> \o name \o <<DQ, NL>>>>
             /\ invoked' = invoked
             /\ cvars' = cvars
             /\ commands' = commands
             /\ lastCall'.ret.kind # "crash"
        /\ ( /\ lastCall.op = "execute"
             /\ lastCall.text # <<>>
             /\ StartsWith(lastLogLine, S_UnknownCommand)
             /\ IsRegistered(name)
             /\ Len(ArgsOf(lastCall'.text)) >=
                  commands[FindCommand(name)].min_args ) =>
             Len(invoked') = Len(invoked) + 1
     ]_vars

\* "bogus" was reported as unknown and the "echo hello" executed right
\* after it was echoed.
C5_Witness ==
  /\ lastCall.op = "execute"
  /\ lastCall.text = Join(<<S_echo, W_hello>>)
  /\ Len(cmd_log) = 2
  /\ cmd_log[2] = W_bogus
  /\ Len(log) = 2
  /\ log[1] = S_UnknownCommand \o Quoted(W_bogus) \o <<NL>>
  /\ log[2] = W_hello \o <<NL>>
  /\ Len(invoked) = 1

(***************************************************************************)
(* C6: for the Boolean variable v, with no command named v:                *)
(* execute("v t") sets v to false exactly when t is "0" or "false" and to  *)
(* true for every other token ("1", "False", "00"), then logs              *)
(* "v" = "true" or "v" = "false" for the new value; execute("v") logs the  *)
(* current value and does not change it.                                   *)
(***************************************************************************)
C6_Line(b) ==
  <<DQ, "v", DQ, " ", "=", " ", DQ>>
  \o (IF b THEN <<"t","r","u","e">> ELSE <<"f","a","l","s","e">>)
  \o <<DQ, NL>>

C6_BooleanVariable ==
  [][(ExecuteStep /\ NameOf(lastCall'.text) = <<"v">> /\ ~IsRegistered(<<"v">>))
       =>
        LET args == ArgsOf(lastCall'.text) IN
        /\ (args # <<>> /\ args[1] \in {<<"0">>, <<"f","a","l","s","e">>}) =>
             cvars'[<<"v">>].value = FALSE
        /\ (args # <<>> /\ args[1] \notin {<<"0">>, <<"f","a","l","s","e">>}) =>
             cvars'[<<"v">>].value = TRUE
        /\ args = <<>> => cvars' = cvars
        /\ Appended = <<C6_Line(cvars'[<<"v">>].value)>>
        /\ \A x \in DOMAIN cvars \ {<<"v">>} : cvars'[x] = cvars[x]
        /\ cvars'[<<"v">>].type = "CVAR_BOOLEAN"
     ]_vars

\* "v False" made v true, after "v false" had made it false.
C6_Witness ==
  /\ lastCall.op = "execute"
  /\ lastCall.text = Join(<<W_v, W_False>>)
  /\ ~IsRegistered(W_v)
  /\ Len(cmd_log) = 2
  /\ cmd_log[2] = Join(<<W_v, S_false>>)
  /\ cvars[W_v].value = TRUE
  /\ Len(log) = 2
  /\ log[1] = C6_Line(FALSE)
  /\ log[2] = C6_Line(TRUE)

(***************************************************************************)
(* C7: lastCommand() is the most recently executed non-empty line, and the *)
(* empty string when the history is empty.                                 *)
(***************************************************************************)
C7_LastCommandMostRecent ==
  lastCommand =
    (IF executed = <<>> THEN <<>> ELSE executed[Len(executed)])

(***************************************************************************)
(* C8: the history is most recent first.  prevCommand(i) is the (i+1)-th   *)
(* most recently executed non-empty line for 0 <= i < the number of such   *)
(* lines, and the empty string for any other i; an execute of a non-empty  *)
(* line puts that line at index 0 and moves every earlier entry one index  *)
(* up, unchanged.                                                          *)
(***************************************************************************)
C8_HistoryMostRecentFirst ==
  [][/\ \A i \in -1..(MaxHist + 1) :
          prevCommand(i)' =
            (IF 0 <= i /\ i < Len(executed')
               THEN executed'[Len(executed') - i]
               ELSE <<>>)
     /\ ExecuteStep =>
          /\ prevCommand(0)' = lastCall'.text
          /\ \A i \in 0..(Len(cmd_log) - 1) : prevCommand(i + 1)' = prevCommand(i)
     ]_vars

\* Two different lines were executed: the later one is at index 0, the
\* earlier one at index 1, and there is nothing at index 2 or -1.
C8_Witness ==
  /\ lastCall.op = "execute"
  /\ Len(executed) = 2
  /\ executed[1] # executed[2]
  /\ prevCommand(0) = lastCall.text
  /\ prevCommand(0) = executed[2]
  /\ prevCommand(1) = executed[1]
  /\ prevCommand(2) = <<>>
  /\ prevCommand(-1) = <<>>

(***************************************************************************)
(* C9: command(index) with index >= the number of commands fails with an   *)
(* out-of-range error and returns no command or other element, also on an  *)
(* empty registry.                                                         *)
(***************************************************************************)
C9_OutOfRangeFails ==
  (lastCall.op = "command" /\ lastCall.index >= numCommands) =>
    lastCall.ret.kind = "out_of_range"

(***************************************************************************)
(* C10: after any sequence of addCommand calls, also ones that reuse a     *)
(* registered name, no two entries of the registry have the same name.     *)
(***************************************************************************)
C10_UniqueNames ==
  \A i, j \in 1..Len(commands) :
    i < j => commands[i].name # commands[j].name

(***************************************************************************)
(* C11: in every state reached by execute and logMessage calls, every      *)
(* transcript entry is non-empty and ends with a newline.                  *)
(***************************************************************************)
C11_EntriesTerminated ==
  \A k \in 1..Len(log) : log[k] # <<>> /\ log[k][Len(log[k])] = NL

(***************************************************************************)
(* C12: logMessage(m) appends exactly one transcript entry, m itself when  *)
(* m ends with a newline and m followed by one newline otherwise (so m and *)
(* m with a newline added give the same entry), and announces              *)
(* "console_logmessage" exactly once.                                      *)
(***************************************************************************)
C12_Terminated(m) ==
  IF m # <<>> /\ m[Len(m)] = NL THEN m ELSE m \o <<NL>>

C13_RoundTrip ==
  \A x \in DOMAIN cvars :
    SetValue(cvars[x], PrintValue(cvars[x])) = cvars[x].value

\* C13 as amended: the round trip gives the stored value again for a
\* Boolean, an Integer and a String variable; for a Float variable it gives
\* the stored value rounded to four decimals, hence the stored value itself
\* when that has no more than four decimals.
C13_RoundTripToFourDecimals ==
  \A x \in DOMAIN cvars :
    LET v == cvars[x].value
        back == SetValue(cvars[x], PrintValue(cvars[x]))
    IN  IF cvars[x].type = "CVAR_FLOAT"
          THEN /\ back % FloatShift = 0
               /\ 2 * (back - v) <= FloatShift
               /\ 2 * (v - back) <= FloatShift
               /\ (v % FloatShift = 0 => back = v)
          ELSE back = v

\* The Float variable holds a value with a fifth decimal, which the round
\* trip loses, next to a negative Integer, which it keeps.
C13_Witness ==
  /\ lastCall.op = "execute"
  /\ cvars[W_f].value % FloatShift # 0
  /\ SetValue(cvars[W_f], PrintValue(cvars[W_f])) # cvars[W_f].value
  /\ cvars[W_n].value < 0
  /\ SetValue(cvars[W_n], PrintValue(cvars[W_n])) = cvars[W_n].value

(***************************************************************************)
(* C14: on the variable path only the first argument is used.  For a       *)
(* declared variable v, execute("v a b c") leaves the variable store and   *)
(* the appended transcript line as execute("v a") leaves them from the     *)
(* same state; exactly one line "<name>" = "<value>" is logged, showing    *)
(* the value after the assignment, and no other variable changes.          *)
(***************************************************************************)
C14_FirstArgumentOnly ==
  [][(ExecuteStep /\ ~IsRegistered(NameOf(lastCall'.text))
                  /\ IsDeclared(NameOf(lastCall'.text))
                  /\ ArgsOf(lastCall'.text) # <<>>) =>
        LET name == NameOf(lastCall'.text)
            short == Dispatch(name \o <<" ">> \o ArgsOf(lastCall'.text)[1])
        IN  /\ cvars' = short.cvars
            /\ log' \in LogAll(log, short.msgs)
            /\ Len(Appended) = 1
            /\ Appended[1] =
                 <<DQ>> \o name \o <<DQ, " ", "=", " ", DQ>>
                 \o PrintValue(cvars'[name]) \o <<DQ, NL>>
            /\ \A x \in DOMAIN cvars \ {name} : cvars'[x] = cvars[x]
     ]_vars

\* "v 1 0" was executed with no command named v, and v is true.
C14_Witness ==
  /\ lastCall.op = "execute"
  /\ lastCall.text = Join(<<W_v, W_1, S_zero>>)
  /\ ~IsRegistered(W_v)
  /\ cvars[W_v].value = TRUE
  /\ lastLogLine = Quoted(W_v) \o S_eq \o Quoted(S_true) \o <<NL>>

(***************************************************************************)
(* C15: for the Integer variable n, execute("n t") with t not a            *)
(* well-formed decimal integer ("abc", "12abc", "-") sets n to 0 and logs  *)
(* "n" = "0"; with t a well-formed signed decimal integer it sets n to     *)
(* that integer and logs it in decimal without leading zeros.              *)
(***************************************************************************)
\* An optional sign and then digits only, at least one.
C15_WellFormed(t) ==
  LET d == IF t # <<>> /\ t[1] \in {"-", "+"} THEN Tail(t) ELSE t IN
  d # <<>> /\ \A k \in 1..Len(d) : d[k] \in {Digits[i] : i \in 1..10}

\* The integer a well-formed text denotes.
RECURSIVE C15_Unsigned(_)
C15_Unsigned(d) ==
  IF d = <<>> THEN 0
  ELSE 10 * C15_Unsigned(SubSeq(d, 1, Len(d) - 1))
       + (CHOOSE i \in 0..9 : Digits[i + 1] = d[Len(d)])

C15_Value(t) ==
  IF t[1] = "-" THEN 0 - C15_Unsigned(Tail(t))
  ELSE IF t[1] = "+" THEN C15_Unsigned(Tail(t))
  ELSE C15_Unsigned(t)

\* The integer the longest well-formed start of t denotes, 0 without one.
C15_LeadingValue(t) ==
  LET ks == {k \in 1..Len(t) : C15_WellFormed(SubSeq(t, 1, k))} IN
  IF ks = {} THEN 0
  ELSE C15_Value(SubSeq(t, 1, CHOOSE k \in ks : \A j \in ks : j <= k))

\* The transcript line "n" = "<n in decimal, no leading zeros>".
C15_Logged(entry, n) ==
  LET text == SubSeq(entry, 8, Len(entry) - 2) IN
  /\ StartsWith(entry, <<DQ, "n", DQ, " ", "=", " ", DQ>>)
  /\ SubSeq(entry, Len(entry) - 1, Len(entry)) = <<DQ, NL>>
  /\ C15_WellFormed(text)
  /\ text[1] # "+"
  /\ C15_Value(text) = n
  /\ LET d == IF text[1] = "-" THEN Tail(text) ELSE text IN
     Len(d) = 1 \/ d[1] # "0"

C15_IntegerStep ==
  ExecuteStep /\ NameOf(lastCall'.text) = <<"n">> /\ ~IsRegistered(<<"n">>)
              /\ ArgsOf(lastCall'.text) # <<>>

C15_MalformedIsZero ==
  [][C15_IntegerStep =>
        LET t == ArgsOf(lastCall'.text)[1] IN
        /\ cvars'[<<"n">>].value =
             (IF C15_WellFormed(t) THEN C15_Value(t) ELSE 0)
        /\ Len(Appended) = 1
        /\ C15_Logged(Appended[1], cvars'[<<"n">>].value)
     ]_vars

\* C15 as amended: n becomes the integer that the longest leading part of t
\* which is an optionally signed digit sequence denotes ("12abc" gives 12),
\* and 0 when t starts with no such part ("abc", "-"); a well-formed t
\* gives that integer; the value is logged in decimal without leading
\* zeros, and there is no error outcome.
C15_LeadingDigitsParsed ==
  [][C15_IntegerStep =>
        LET t == ArgsOf(lastCall'.text)[1] IN
        /\ cvars'[<<"n">>].value = C15_LeadingValue(t)
        /\ C15_WellFormed(t) => cvars'[<<"n">>].value = C15_Value(t)
        /\ Len(Appended) = 1
        /\ C15_Logged(Appended[1], cvars'[<<"n">>].value)
        /\ lastCall'.ret.kind # "crash"
     ]_vars

\* "n 12abc" left 12 in n, after "n -" had left 0.
C15_Witness ==
  /\ lastCall.op = "execute"
  /\ lastCall.text = Join(<<W_n, W_12abc>>)
  /\ Len(cmd_log) = 2
  /\ cmd_log[2] = Join(<<W_n, W_minus>>)
  /\ cvars[W_n].value = 12
  /\ log[1] = Quoted(W_n) \o S_eq \o Quoted(S_zero) \o <<NL>>
  /\ log[2] = Quoted(W_n) \o S_eq \o Quoted(<<"1", "2">>) \o <<NL>>

(***************************************************************************)
(* C16: with the built-in echo command registered, execute of a line       *)
(* "echo X ..." with at least one argument X appends exactly one           *)
(* transcript entry, X followed by a newline, which is then the last line; *)
(* the arguments after X are ignored, and the history front is the raw     *)
(* line.                                                                   *)
(***************************************************************************)
C16_EchoStep ==
  /\ ExecuteStep
  /\ NameOf(lastCall'.text) = S_echo
  /\ \E a \in 1..Len(commands) : commands[a] = CmdEcho
  /\ CollectArgs(openString(lastCall'.text), 2) # <<>>

C16_EchoFirstArgument ==
  [][C16_EchoStep =>
        LET X == ArgsOf(lastCall'.text)[1] IN
        /\ Appended = <<X \o <<NL>>>>
        /\ lastLogLine' = X \o <<NL>>
        /\ Len(log') = Len(log) + 1
        /\ cmd_log'[1] = lastCall'.text
     ]_vars

\* "echo hello 1" was executed after another line: hello is the last line.
C16_Witness ==
  /\ lastCall.op = "execute"
  /\ lastCall.text = Join(<<S_echo, W_hello, W_1>>)
  /\ \E a \in 1..Len(commands) : commands[a] = CmdEcho
  /\ Len(cmd_log) = 2
  /\ cmd_log[1] = Join(<<S_echo, W_hello, W_1>>)
  /\ lastLogLine = W_hello \o <<NL>>

(***************************************************************************)
(* C17: the transcript is append-only.  Every execute and every logMessage *)
(* leaves the transcript it found as a prefix of the transcript it         *)
(* leaves, entry by entry, so dumpLog before the call is a prefix of       *)
(* dumpLog after it.                                                       *)
(***************************************************************************)
C17_AppendOnly ==
  [][lastCall'.op \in {"execute", "logMessage"} =>
        /\ Len(log') >= Len(log)
        /\ SubSeq(log', 1, Len(log)) = log
        /\ StartsWith(dumpLog', dumpLog)
     ]_vars

\* A line was echoed after the host had logged a message of its own.
C17_Witness ==
  /\ lastCall.op = "execute"
  /\ log = <<<<"h", "i", NL>>, W_hello \o <<NL>>>>
  /\ dumpLog = <<"h", "i", NL>> \o W_hello \o <<NL>>

(***************************************************************************)
(* C19: in every state the number of "console_execute" announcements       *)
(* equals the history length and the number of non-empty lines given to    *)
(* execute, and the number of "console_logmessage" announcements equals    *)
(* the transcript length.                                                  *)
(***************************************************************************)
C19_Counting ==
  /\ announced["console_execute"] = Len(cmd_log)
  /\ Len(cmd_log) = Cardinality({k \in 1..Len(executed) : executed[k] # <<>>})
  /\ Len(executed) = Len(cmd_log)
  /\ announced["console_logmessage"] = Len(log)

\* Two lines were executed, one of them listing the commands on several
\* transcript lines, next to a message of the host.
C19_Witness ==
  /\ Len(cmd_log) = 2
  /\ announced["console_execute"] = 2
  /\ Len(log) >= 4
  /\ announced["console_logmessage"] = Len(log)
  /\ log[1] = <<"h", "i", NL>>

(***************************************************************************)
(* C18: within one execute of a non-empty line the history insertion and   *)
(* the "console_execute" announcement come before the dispatch.  When the  *)
(* handler runs or the missing-arguments, variable or unknown-command      *)
(* line is logged, the history front is already the raw line and the       *)
(* announcement has already been made; both happen exactly once per        *)
(* non-empty execute, whatever the dispatch does.                          *)
(***************************************************************************)
C18_RecordedBeforeDispatch ==
  [][/\ (lastCall'.op = "executing" =>
           /\ lastCall'.text # <<>>
           /\ cmd_log' = <<lastCall'.text>> \o cmd_log
           /\ announced'["console_execute"] = announced["console_execute"] + 1
           /\ log' = log /\ invoked' = invoked /\ cvars' = cvars)
     /\ (lastCall.op = "executing" =>
           /\ lastCall'.op = "execute" /\ lastCall'.text = lastCall.text
           /\ cmd_log[1] = lastCall.text
           /\ announced["console_execute"] = Len(cmd_log)
           /\ cmd_log' = cmd_log
           /\ announced'["console_execute"] = announced["console_execute"]
           /\ Len(log') + Len(invoked') > Len(log) + Len(invoked))
     /\ (ExecuteStep => lastCall.op = "executing")
    ]_vars

\* Between the two steps of execute("echo hello"): the line is at the
\* history front and announced, and nothing of it is in the transcript.
C18_Witness ==
  /\ lastCall.op = "executing"
  /\ lastCall.text = Join(<<S_echo, W_hello>>)
  /\ \E a \in 1..Len(commands) : commands[a] = CmdEcho
  /\ Len(cmd_log) = 2
  /\ cmd_log[1] = lastCall.text
  /\ announced["console_execute"] = 2
  /\ Len(log) = 1
  /\ invoked = <<>>

(***************************************************************************)
(* C20: a non-empty line with no token in it is not taken as empty input:  *)
(* it is put at the history front, announced, and, no command or variable  *)
(* being named by the empty string, answered with the transcript line      *)
(* Unknown command: "".  The argument collection stops at the first empty  *)
(* token: the tokens after it never reach the handler.                     *)
(***************************************************************************)
\* The tokens of ts before the first empty one.
C20_BeforeEmpty(ts) ==
  LET stops == {k \in 1..Len(ts) : ts[k] = <<>>} IN
  IF stops = {} THEN ts
  ELSE SubSeq(ts, 1, (CHOOSE k \in stops : \A j \in stops : k <= j) - 1)

C20_NewCalls == SubSeq(invoked', Len(invoked) + 1, Len(invoked'))

C20_BlankLineAndEmptyToken ==
  [][ExecuteStep =>
        /\ (openString(lastCall'.text) = <<>>
              /\ ~IsRegistered(<<>>) /\ ~IsDeclared(<<>>) =>
                /\ cmd_log' = <<lastCall'.text>> \o cmd_log
                /\ announced'["console_execute"] =
                     announced["console_execute"] + 1
                /\ Appended = <<S_UnknownCommand \o <<DQ, DQ, NL>>>>
                /\ C20_NewCalls = <<>>)
        /\ \A k \in 1..Len(C20_NewCalls) :
             C20_NewCalls[k].args = C20_BeforeEmpty(ArgsOf(lastCall'.text))
        /\ (IsRegistered(NameOf(lastCall'.text))
              /\ C20_BeforeEmpty(ArgsOf(lastCall'.text)) = <<>>
              /\ ArgsOf(lastCall'.text) # <<>>
              /\ NameOf(lastCall'.text) = S_echo =>
                C20_NewCalls = <<>> /\ Appended = <<S_MissingArgs \o <<NL>>>>)
     ]_vars

\* A line of one blank was answered with Unknown command: "", and then
\* echo was handed hello alone from the line echo hello "" 1.
C20_Witness ==
  /\ lastCall.op = "execute"
  /\ cmd_log = <<Join(<<S_echo, W_hello, W_quotes, W_1>>), W_blank>>
  /\ announced["console_execute"] = 2
  /\ log = <<S_UnknownCommand \o <<DQ, DQ, NL>>, W_hello \o <<NL>>>>
  /\ invoked = <<[commandFunc |-> "c_echo", args |-> <<W_hello>>]>>

====
